---- MODULE Spec2Model ----
(***************************************************************************)
(* Model of the poker-betting program                                      *)
(* (contracts/programs/poker-betting/src/lib.rs).                          *)
(*                                                                         *)
(* The ledger is the set of accounts the program touches: one Lobby        *)
(* account per game_id (PDA ["lobby", game_id]), one Bet account per       *)
(* (lobby, bettor) pair (PDA ["bet", lobby, bettor]), one escrow account   *)
(* per lobby (PDA ["escrow", lobby]) and the wallets of the signers.       *)
(* Every instruction runs as one transaction: the account constraints of   *)
(* its #[derive(Accounts)] struct first, then the handler; an Err anywhere *)
(* aborts the transaction and none of its writes is committed.             *)
(*                                                                         *)
(* Not modelled: the timestamps (created_at, updated_at, placed_at), the   *)
(* informational contest parameters (starting_chips, small_blind,          *)
(* big_blind, max_hands) and the byte sizes of the accounts.  The PDA      *)
(* accounts of an instruction are the ones its seeds derive from the       *)
(* lobby and the bettor; distribute_single_winning is also called with     *)
(* other bet and escrow addresses, which its seeds constraints reject.     *)
(***************************************************************************)
EXTENDS Integers, Sequences, FiniteSets, TLC

(* ------------------------------ bounds --------------------------------- *)
\* Largest amount a place_bet call is tried with (amounts are 0..MaxAmount).
MaxAmount == 2
\* Lamports every wallet holds in the initial state.
InitLamports == 4
\* Largest value of the (scaled-down) unsigned range of total_bets.
U64Max == 2

(* -------------------------- program constants -------------------------- *)
\* Rent::get()?.minimum_balance(0): the bootstrap deposit of the escrow.
RentExemptMinimum == 1
\* Rent paid by the payer of `init` for the Lobby account (space 8 + Lobby::LEN).
LobbyRent == 1
\* Rent paid by the payer of `init` for the Bet account (space 8 + Bet::LEN).
BetRent == 1

Keys == {"k1", "k2", "k3"}
GameIds == {"g1", "g2"}
PlayerNames == {"alice", "bob", "carol"}
ModelNameLists == {<<"alice", "bob">>, <<"bob">>}
Amounts == 0..MaxAmount

LobbyStatus == {"Waiting", "Running", "Finished"}
BetStatus == {"Active", "Paid", "Refunded"}
BettingError ==
    {"LobbyNotOpenForBets", "InvalidPlayerName", "BetAmountMustBePositive",
     "Unauthorized", "LobbyNotFinished", "InvalidBetAccount", "InvalidBettor",
     "BetOnWrongPlayer", "BetAlreadyProcessed", "Overflow"}
\* Besides these, a call fails with an error of the account constraints or
\* of the system program: "AccountAlreadyInUse" (init of an existing
\* account), "AccountNotInitialized" (Account<T> of a missing account) and
\* "InsufficientFunds" (a transfer or the rent of an init), and
\* "ConstraintSeeds" (an account that is not at the address of its seeds).

NoKey == "-"
NoName == "-"
NoGame == "-"

\* An account that has not been created by `init` yet.
NoLobby ==
    [initialized |-> FALSE, owner |-> NoKey, game_id |-> NoGame,
     model_names |-> <<>>, status |-> "Waiting", total_bets |-> 0]
NoBet ==
    [initialized |-> FALSE, bettor |-> NoKey, lobby |-> NoGame,
     player_name |-> NoName, amount |-> 0, status |-> "Active"]

VARIABLES
    lobby,      \* game_id -> Lobby account
    bet,        \* <<game_id, bettor>> -> Bet account
    escrow,     \* game_id -> lamports of the lobby's escrow account
    lamports,   \* key -> lamports of the wallet
    payouts,    \* <<game_id, bettor>> -> number of escrow transfers paid for the bet (history)
    pre,        \* the ledger before the last call
    last        \* the last call and its result

vars == <<lobby, bet, escrow, lamports, payouts, pre, last>>

Ledger == [lobby |-> lobby, bet |-> bet, escrow |-> escrow, lamports |-> lamports]

(* ------------------------------ helpers -------------------------------- *)
Ok(L) == [result |-> "Ok", L |-> L]
Err(e, L) == [result |-> e, L |-> L]

\* Faulty variant: accepts every name once the list is not empty
contains_any(names, n) == Len(names) > 0

\* Vec<String>::contains
contains(names, n) == \E i \in 1..Len(names) : names[i] = n

\* Faulty variant: u64::saturating_add
saturating_add(a, b) == IF a + b > U64Max THEN U64Max ELSE a + b

\* Faulty variant: u64::wrapping_add
wrapping_add(a, b) == (a + b) % (U64Max + 1)

\* u64::checked_add: None (here -1) when the sum leaves the range.
checked_add(a, b) == IF a + b > U64Max THEN -1 ELSE a + b

\* system_instruction::transfer wallet -> escrow; fails on insufficient lamports.
transfer_to_escrow(L, from, g, amt) ==
    IF L.lamports[from] < amt
    THEN Err("InsufficientFunds", L)
    ELSE Ok([L EXCEPT !.lamports[from] = @ - amt, !.escrow[g] = @ + amt])

\* system_instruction::transfer escrow -> wallet, signed with the escrow seeds.
transfer_from_escrow(L, g, to, amt) ==
    IF L.escrow[g] < amt
    THEN Err("InsufficientFunds", L)
    ELSE Ok([L EXCEPT !.escrow[g] = @ - amt, !.lamports[to] = @ + amt])

\* Faulty variant: the writes made before the error stay
CommitPartial(L0, out) == out.L

\* A transaction commits the handler's writes only when the handler returns Ok.
Commit(L0, out) == IF out.result = "Ok" THEN out.L ELSE L0

(* ---------------------------- create_lobby ----------------------------- *)
\* Faulty variant: init_if_needed, an existing Lobby account is taken as it is
CreateLobbyInitIfNeeded(L, owner, g) ==
    IF L.lobby[g].initialized THEN Ok(L)
    ELSE IF L.lamports[owner] < LobbyRent THEN Err("InsufficientFunds", L)
    ELSE Ok([L EXCEPT !.lamports[owner] = @ - LobbyRent,
                      !.lobby[g] = [NoLobby EXCEPT !.initialized = TRUE]])

\* #[account(init, payer = owner, seeds = ["lobby", game_id])]
CreateLobby(L, owner, g) ==
    IF L.lobby[g].initialized THEN Err("AccountAlreadyInUse", L)
    ELSE IF L.lamports[owner] < LobbyRent THEN Err("InsufficientFunds", L)
    ELSE Ok([L EXCEPT !.lamports[owner] = @ - LobbyRent,
                      !.lobby[g] = [NoLobby EXCEPT !.initialized = TRUE]])

create_lobby(L, owner, g, model_names) ==
    LET acc == CreateLobby(L, owner, g) IN
    IF acc.result # "Ok" THEN acc
    ELSE LET L1 == [acc.L EXCEPT !.lobby[g] =
                       [initialized |-> TRUE, owner |-> owner, game_id |-> g,
                        model_names |-> model_names, status |-> "Waiting",
                        total_bets |-> 0]]
         IN transfer_to_escrow(L1, owner, g, RentExemptMinimum)

(* ------------------------------ place_bet ------------------------------ *)
\* Faulty variant: init_if_needed, an existing Bet account is taken as it is
PlaceBetInitIfNeeded(L, bettor, g) ==
    IF ~L.lobby[g].initialized THEN Err("AccountNotInitialized", L)
    ELSE IF L.bet[<<g, bettor>>].initialized THEN Ok(L)
    ELSE IF L.lamports[bettor] < BetRent THEN Err("InsufficientFunds", L)
    ELSE Ok([L EXCEPT !.lamports[bettor] = @ - BetRent,
                      !.bet[<<g, bettor>>] = [NoBet EXCEPT !.initialized = TRUE]])

\* lobby: Account<Lobby>; bet: #[account(init, payer = bettor, seeds = ["bet", lobby, bettor])]
PlaceBet(L, bettor, g) ==
    IF ~L.lobby[g].initialized THEN Err("AccountNotInitialized", L)
    ELSE IF L.bet[<<g, bettor>>].initialized THEN Err("AccountAlreadyInUse", L)
    ELSE IF L.lamports[bettor] < BetRent THEN Err("InsufficientFunds", L)
    ELSE Ok([L EXCEPT !.lamports[bettor] = @ - BetRent,
                      !.bet[<<g, bettor>>] = [NoBet EXCEPT !.initialized = TRUE]])

\* Faulty variant: no status check
OpenForBetsAlways(status) == TRUE

\* lobby.status == Waiting || lobby.status == Running
OpenForBets(status) == status = "Waiting" \/ status = "Running"

\* Faulty variant: amount >= 0
AmountIsNonNegative(amount) == amount >= 0

\* amount > 0
AmountIsPositive(amount) == amount > 0

place_bet(L, bettor, g, player_name, amount) ==
    LET acc == PlaceBet(L, bettor, g) IN
    IF acc.result # "Ok" THEN acc
    ELSE IF ~OpenForBets(acc.L.lobby[g].status) THEN Err("LobbyNotOpenForBets", acc.L)
    ELSE IF ~contains(acc.L.lobby[g].model_names, player_name)
         THEN Err("InvalidPlayerName", acc.L)
    ELSE IF ~AmountIsPositive(amount) THEN Err("BetAmountMustBePositive", acc.L)
    ELSE LET tr == transfer_to_escrow(acc.L, bettor, g, amount) IN
         IF tr.result # "Ok" THEN tr
         ELSE LET L1 == [tr.L EXCEPT !.bet[<<g, bettor>>] =
                            [initialized |-> TRUE, bettor |-> bettor, lobby |-> g,
                             player_name |-> player_name, amount |-> amount,
                             status |-> "Active"]]
                  sum == checked_add(L1.lobby[g].total_bets, amount)
              IN IF sum = -1 THEN Err("Overflow", L1)
                 ELSE Ok([L1 EXCEPT !.lobby[g].total_bets = sum])

(* -------------------------- update_lobby_status ------------------------ *)
\* lobby: Account<Lobby>
UpdateLobbyStatus(L, g) ==
    IF ~L.lobby[g].initialized THEN Err("AccountNotInitialized", L) ELSE Ok(L)

\* Faulty variant: no owner check
AnySigner(lob, signer) == TRUE

\* lobby.owner == ctx.accounts.owner.key()
IsOwner(lob, signer) == lob.owner = signer

update_lobby_status(L, signer, g, status) ==
    LET acc == UpdateLobbyStatus(L, g) IN
    IF acc.result # "Ok" THEN acc
    ELSE IF ~IsOwner(L.lobby[g], signer) THEN Err("Unauthorized", L)
    ELSE Ok([L EXCEPT !.lobby[g].status = status])

(* ----------------------- distribute_single_winning --------------------- *)
\* The accounts a distribute_single_winning call passes: the lobby, the
\* address of the bet account, the owner (signer), the escrow and the bettor.
Accounts(signer, g, ba, e, bettor) ==
    [lobby |-> g, bet |-> ba, owner |-> signer, escrow |-> e, bettor |-> bettor]

\* Faulty variant: every address passes the seeds check
AnyAddress(addr, derived) == TRUE

\* seeds = [...], bump: the account is at the address derived from the seeds
SeedsMatch(addr, derived) == addr = derived

\* lobby: Account<Lobby>; bet: Account<Bet> with seeds ["bet", lobby, bettor];
\* escrow with seeds ["escrow", lobby]
DistributeSingleWinning(L, ctx) ==
    IF ~L.lobby[ctx.lobby].initialized THEN Err("AccountNotInitialized", L)
    ELSE IF ~L.bet[ctx.bet].initialized THEN Err("AccountNotInitialized", L)
    ELSE IF ~SeedsMatch(ctx.bet, <<ctx.lobby, ctx.bettor>>) THEN Err("ConstraintSeeds", L)
    ELSE IF ~SeedsMatch(ctx.escrow, ctx.lobby) THEN Err("ConstraintSeeds", L)
    ELSE Ok(L)

\* Faulty variant: lobby.status != Waiting
IsNotWaiting(status) == status # "Waiting"

\* lobby.status == LobbyStatus::Finished
IsFinished(status) == status = "Finished"

\* Faulty variant: every bet counts as a winning one
AnyBetWins(b, winner_name) == TRUE

\* bet.player_name == winner_name
IsWinner(b, winner_name) == b.player_name = winner_name

\* Faulty variant: no status check on the bet
BetIsAnyStatus(b) == TRUE

\* bet.status == BetStatus::Active
BetIsActive(b) == b.status = "Active"

\* Faulty variant: the whole pool is paid out
transfer_pool(lob, b) == lob.total_bets

\* let transfer_amount = bet.amount
transfer_amount(lob, b) == b.amount

\* Faulty variant: the bet is left as it was
mark_unchanged(b) == b

\* bet.status = BetStatus::Paid
mark_paid(b) == [b EXCEPT !.status = "Paid"]

distribute_single_winning(L, ctx, winner_name) ==
    LET acc == DistributeSingleWinning(L, ctx)
        lob == L.lobby[ctx.lobby]
        b == L.bet[ctx.bet]
    IN
    IF acc.result # "Ok" THEN acc
    ELSE IF ~IsOwner(lob, ctx.owner) THEN Err("Unauthorized", L)
    ELSE IF ~IsFinished(lob.status) THEN Err("LobbyNotFinished", L)
    ELSE IF b.lobby # ctx.lobby THEN Err("InvalidBetAccount", L)
    ELSE IF b.bettor # ctx.bettor THEN Err("InvalidBettor", L)
    ELSE IF ~IsWinner(b, winner_name) THEN Err("BetOnWrongPlayer", L)
    ELSE IF ~BetIsActive(b) THEN Err("BetAlreadyProcessed", L)
    ELSE LET tr == transfer_from_escrow(L, ctx.escrow, ctx.bettor, transfer_amount(lob, b)) IN
         IF tr.result # "Ok" THEN tr
         ELSE Ok([tr.L EXCEPT !.bet[ctx.bet] = mark_paid(b)])

(* ------------------------------ the system ----------------------------- *)
NoCall == [op |-> "init", result |-> "Ok"]

Init ==
    /\ lobby = [g \in GameIds |-> NoLobby]
    /\ bet = [p \in GameIds \X Keys |-> NoBet]
    /\ escrow = [g \in GameIds |-> 0]
    /\ lamports = [k \in Keys |-> InitLamports]
    /\ payouts = [p \in GameIds \X Keys |-> 0]
    /\ pre = Ledger
    /\ last = NoCall

\* A call as a transaction on the current ledger: its result and the
\* ledger it leaves.
Transaction(out) == [result |-> out.result, L |-> Commit(Ledger, out)]

CreateLobbyOutcome(owner, g, names) ==
    Transaction(create_lobby(Ledger, owner, g, names))

PlaceBetOutcome(bettor, g, n, a) ==
    Transaction(place_bet(Ledger, bettor, g, n, a))

UpdateLobbyStatusOutcome(signer, g, st) ==
    Transaction(update_lobby_status(Ledger, signer, g, st))

\* A call with any bet and escrow address.
DistributeSingleWinningOutcomeAt(ctx, w) ==
    Transaction(distribute_single_winning(Ledger, ctx, w))

\* A call with the bet and escrow accounts of the lobby and the bettor.
DistributeSingleWinningOutcome(signer, g, bettor, w) ==
    DistributeSingleWinningOutcomeAt(Accounts(signer, g, <<g, bettor>>, g, bettor), w)

\* The step of the system that a call makes.
Apply(o, op) ==
    /\ lobby' = o.L.lobby
    /\ bet' = o.L.bet
    /\ escrow' = o.L.escrow
    /\ lamports' = o.L.lamports
    /\ pre' = Ledger
    /\ last' = [op |-> op, result |-> o.result]

CreateLobbyCall(owner, g, names) ==
    /\ Apply(CreateLobbyOutcome(owner, g, names), "create_lobby")
    /\ UNCHANGED payouts

PlaceBetCall(bettor, g, n, a) ==
    /\ Apply(PlaceBetOutcome(bettor, g, n, a), "place_bet")
    /\ UNCHANGED payouts

UpdateLobbyStatusCall(signer, g, st) ==
    /\ Apply(UpdateLobbyStatusOutcome(signer, g, st), "update_lobby_status")
    /\ UNCHANGED payouts

DistributeSingleWinningCall(ctx, w) ==
    LET o == DistributeSingleWinningOutcomeAt(ctx, w) IN
    /\ Apply(o, "distribute_single_winning")
    /\ payouts' = IF o.L.escrow[ctx.escrow] < escrow[ctx.escrow]
                  THEN [payouts EXCEPT ![ctx.bet] = @ + 1]
                  ELSE payouts

\* The four instructions, called by the signers Ks on the lobbies Gs.
CreateLobbyTx(Ks, Gs) ==
    \E owner \in Ks, g \in Gs, names \in ModelNameLists :
        CreateLobbyCall(owner, g, names)

PlaceBetTx(Ks, Gs) ==
    \E bettor \in Ks, g \in Gs, n \in PlayerNames, a \in Amounts :
        PlaceBetCall(bettor, g, n, a)

UpdateLobbyStatusTx(Ks, Gs) ==
    \E signer \in Ks, g \in Gs, st \in LobbyStatus :
        UpdateLobbyStatusCall(signer, g, st)

DistributeSingleWinningTx(Ks, Gs) ==
    \E signer \in Ks, g \in Gs, ba \in Gs \X Ks, e \in Gs, bettor \in Ks,
       w \in PlayerNames :
        DistributeSingleWinningCall(Accounts(signer, g, ba, e, bettor), w)

\* One lobby, three signers.
OneGame == {"g1"}

Next ==
    \/ CreateLobbyTx(Keys, OneGame)
    \/ PlaceBetTx(Keys, OneGame)
    \/ UpdateLobbyStatusTx(Keys, OneGame)
    \/ DistributeSingleWinningTx(Keys, OneGame)

Spec == Init /\ [][Next]_vars

\* The same system with callers that keep calling: no instruction is left
\* uncalled for ever while a call of it would change the state.
SpecFair ==
    /\ Spec
    /\ WF_vars(CreateLobbyTx(Keys, OneGame))
    /\ WF_vars(PlaceBetTx(Keys, OneGame))
    /\ WF_vars(UpdateLobbyStatusTx(Keys, OneGame))
    /\ WF_vars(DistributeSingleWinningTx(Keys, OneGame))

\* Two lobbies run by one owner, with one bettor who bets on both.
TheOwner == "k3"
TheBettor == {"k1"}

CreateLobbyBy(owner, Gs) ==
    \E g \in Gs : CreateLobbyCall(owner, g, <<"bob">>)

DistributeSingleWinningBy(owner, Ks, Gs) ==
    \E g \in Gs, ba \in Gs \X Ks, e \in Gs, bettor \in Ks, w \in PlayerNames :
        DistributeSingleWinningCall(Accounts(owner, g, ba, e, bettor), w)

NextTwoLobbies ==
    \/ CreateLobbyBy(TheOwner, GameIds)
    \/ PlaceBetTx(TheBettor, GameIds)
    \/ UpdateLobbyStatusTx({TheOwner}, GameIds)
    \/ DistributeSingleWinningBy(TheOwner, TheBettor, GameIds)

SpecTwoLobbies == Init /\ [][NextTwoLobbies]_vars

(* ------------------------------- claims -------------------------------- *)
RECURSIVE SumOver(_, _)
SumOver(f, S) ==
    IF S = {} THEN 0
    ELSE LET x == CHOOSE y \in S : TRUE IN f[x] + SumOver(f, S \ {x})

\* The Bet records whose lobby field references lobby g.
BetsOf(B, g) == {p \in GameIds \X Keys : B[p].initialized /\ B[p].lobby = g}

\* Sum of amount over the Bet records of lobby g, whatever their status.
BetSum(B, g) == SumOver([p \in GameIds \X Keys |-> B[p].amount], BetsOf(B, g))

Distribute == "distribute_single_winning"

\* C1: in every reachable state each lobby's total_bets equals the sum of
\* amount over all Bet records that reference the lobby, Active or Paid.
C1_TotalBetsIsSum ==
    \A g \in GameIds : lobby[g].total_bets = BetSum(bet, g)

C1_Witness ==
    \E g \in GameIds, k1 \in Keys, k2 \in Keys :
        /\ bet[<<g, k1>>].initialized /\ bet[<<g, k1>>].status = "Paid"
        /\ bet[<<g, k2>>].initialized /\ bet[<<g, k2>>].status = "Active"
        /\ lobby[g].total_bets = bet[<<g, k1>>].amount + bet[<<g, k2>>].amount
        /\ lobby[g].total_bets = U64Max

\* C2: a Bet record's status changes at most once, only from Active to Paid
\* and only in a successful distribute_single_winning; Paid is absorbing,
\* Refunded is never reached, and the bet's amount leaves the escrow at most
\* once over the whole history.
C2_StatusStep ==
    \A p \in GameIds \X Keys :
        /\ bet[p].initialized =>
              /\ bet'[p].initialized
              /\ bet[p].status = "Paid" => bet'[p].status = "Paid"
              /\ bet'[p].status # bet[p].status =>
                    /\ bet[p].status = "Active" /\ bet'[p].status = "Paid"
                    /\ last'.op = Distribute /\ last'.result = "Ok"
        /\ payouts'[p] # payouts[p] =>
              bet[p].status = "Active" /\ bet'[p].status = "Paid"

C2_SettledAtMostOnce ==
    /\ [](\A p \in GameIds \X Keys :
            bet[p].status # "Refunded" /\ payouts[p] <= 1)
    /\ [][C2_StatusStep]_vars

C2_Witness ==
    \E p \in GameIds \X Keys :
        /\ last.op = Distribute /\ last.result = "Ok"
        /\ pre.bet[p].status = "Active" /\ bet[p].status = "Paid"
        /\ payouts[p] = 1

\* C3: distribute_single_winning succeeds only on a lobby whose status is
\* Finished; while the status is Waiting or Running the owner's attempt on
\* an existing bet fails with LobbyNotFinished, and no attempt takes funds
\* from the escrow or changes a bet.
C3_OnlyWhenFinished ==
    \A signer \in Keys, g \in GameIds, bettor \in Keys, w \in PlayerNames :
        LET o == DistributeSingleWinningOutcome(signer, g, bettor, w) IN
        /\ o.result = "Ok" => lobby[g].status = "Finished"
        /\ lobby[g].status \in {"Waiting", "Running"} =>
              /\ o.L.escrow = escrow /\ o.L.bet = bet /\ o.L.lamports = lamports
              /\ ( /\ lobby[g].initialized
                   /\ bet[<<g, bettor>>].initialized
                   /\ signer = lobby[g].owner )
                 => o.result = "LobbyNotFinished"

C3_Witness ==
    \E g \in GameIds, k \in Keys :
        /\ last.op = Distribute /\ last.result = "LobbyNotFinished"
        /\ lobby[g].status = "Running"
        /\ bet[<<g, k>>].initialized /\ bet[<<g, k>>].status = "Active"
        /\ escrow[g] = RentExemptMinimum + bet[<<g, k>>].amount

\* C4: the escrow of a lobby decreases only in a successful
\* distribute_single_winning on a bet of that lobby, by exactly the bet's
\* amount, and the bet's bettor receives the same amount; nothing else
\* lowers it.
C4_Step ==
    \A g \in GameIds :
        escrow'[g] < escrow[g] =>
            /\ last'.op = Distribute /\ last'.result = "Ok"
            /\ \E k \in Keys :
                  LET b == bet[<<g, k>>] IN
                  /\ b.initialized /\ b.lobby = g
                  /\ b.status = "Active" /\ bet'[<<g, k>>].status = "Paid"
                  /\ escrow[g] - escrow'[g] = b.amount
                  /\ lamports'[b.bettor] = lamports[b.bettor] + b.amount

C4_EscrowDrainedOnlyBySettlement == [][C4_Step]_vars

C4_Witness ==
    \E g \in GameIds, k \in Keys :
        /\ last.op = Distribute /\ last.result = "Ok"
        /\ bet[<<g, k>>].status = "Paid" /\ bet[<<g, k>>].amount = 1
        /\ pre.escrow[g] - escrow[g] = 1
        /\ lamports[k] = pre.lamports[k] + 1
        /\ lobby[g].total_bets = 2

\* C5: a call that returns an error leaves every Lobby, every Bet record,
\* every wallet and every escrow as before the call; a place_bet either
\* moves the funds, creates the Bet record and adds to total_bets, or does
\* none of the three.
C5_Step ==
    /\ last'.result # "Ok" => Ledger' = Ledger /\ payouts' = payouts
    /\ last'.op = "place_bet" =>
          \/ Ledger' = Ledger
          \/ \E g \in GameIds, k \in Keys :
                LET a == bet'[<<g, k>>].amount IN
                /\ ~bet[<<g, k>>].initialized /\ bet'[<<g, k>>].initialized
                /\ a > 0
                /\ escrow'[g] = escrow[g] + a
                /\ lamports'[k] = lamports[k] - a - BetRent
                /\ lobby'[g].total_bets = lobby[g].total_bets + a

C5_FailedCallChangesNothing == [][C5_Step]_vars

C5_Witness ==
    /\ last.op = "place_bet" /\ last.result = "InsufficientFunds"
    /\ \A k \in Keys : lamports[k] >= BetRent
    /\ Ledger = pre
\* The names of a model_names list.
Members(names) == {names[i] : i \in 1..Len(names)}

\* The account constraints of PlaceBet pass: the lobby exists, the bettor has
\* no Bet record on it yet and can pay the rent of one.
PlaceBetReachesHandler(bettor, g) ==
    /\ lobby[g].initialized
    /\ ~bet[<<g, bettor>>].initialized
    /\ lamports[bettor] >= BetRent

C7_Original ==
    \A bettor \in Keys, g \in GameIds, n \in PlayerNames, a \in Amounts :
        (lobby[g].initialized /\ lobby[g].status = "Finished") =>
            PlaceBetOutcome(bettor, g, n, a).result = "LobbyNotOpenForBets"

\* C7 (amended): place_bet succeeds only while the lobby status is Waiting
\* or Running; on a Finished lobby it fails, creating no Bet record and
\* moving no funds, with LobbyNotOpenForBets when the bettor has no Bet
\* record on the lobby and can pay its rent, and with the error of the
\* account initialisation otherwise.
C7_NoBetsOnFinishedLobby ==
    \A bettor \in Keys, g \in GameIds, n \in PlayerNames, a \in Amounts :
        LET o == PlaceBetOutcome(bettor, g, n, a) IN
        /\ o.result = "Ok" =>
              lobby[g].initialized /\ lobby[g].status \in {"Waiting", "Running"}
        /\ (lobby[g].initialized /\ lobby[g].status = "Finished") =>
              /\ o.L = Ledger
              /\ o.result =
                    IF bet[<<g, bettor>>].initialized THEN "AccountAlreadyInUse"
                    ELSE IF lamports[bettor] < BetRent THEN "InsufficientFunds"
                    ELSE "LobbyNotOpenForBets"

C7_Witness ==
    \E g \in GameIds :
        /\ last.op = "place_bet" /\ last.result = "LobbyNotOpenForBets"
        /\ lobby[g].initialized /\ lobby[g].status = "Finished"
        /\ Ledger = pre

\* C8 (as claimed): place_bet with amount 0 fails with
\* BetAmountMustBePositive for every lobby state and every player_name -
\* here already for the calls on an existing lobby that pass the account
\* constraints.
C8_Original ==
    \A bettor \in Keys, g \in GameIds, n \in PlayerNames :
        PlaceBetReachesHandler(bettor, g) =>
            PlaceBetOutcome(bettor, g, n, 0).result = "BetAmountMustBePositive"

\* C8 (amended): place_bet with amount 0 always fails and creates no Bet
\* record, for every lobby state and every player_name; the error is
\* BetAmountMustBePositive when the call reaches the handler, the lobby is
\* Waiting or Running and player_name is one of its model_names; every Bet
\* record has amount > 0.
C8_ZeroAmountAlwaysFails ==
    /\ \A p \in GameIds \X Keys : bet[p].initialized => bet[p].amount > 0
    /\ \A bettor \in Keys, g \in GameIds, n \in PlayerNames :
          LET o == PlaceBetOutcome(bettor, g, n, 0) IN
          /\ o.result # "Ok"
          /\ o.L = Ledger
          /\ ( /\ PlaceBetReachesHandler(bettor, g)
               /\ lobby[g].status \in {"Waiting", "Running"}
               /\ n \in Members(lobby[g].model_names) )
             => o.result = "BetAmountMustBePositive"

C8_Witness ==
    \E g \in GameIds :
        /\ last.op = "place_bet" /\ last.result = "BetAmountMustBePositive"
        /\ lobby[g].initialized /\ lobby[g].status \in {"Waiting", "Running"}
        /\ Ledger = pre

\* C9 (as claimed): place_bet on an open lobby with a player_name that is
\* not in the lobby's model_names fails with InvalidPlayerName.
C9_Original ==
    \A bettor \in Keys, g \in GameIds, n \in PlayerNames, a \in Amounts :
        ( /\ lobby[g].initialized
          /\ lobby[g].status \in {"Waiting", "Running"}
          /\ n \notin Members(lobby[g].model_names) )
        => PlaceBetOutcome(bettor, g, n, a).result = "InvalidPlayerName"

\* C9 (amended): place_bet on an open lobby with a player_name that is not
\* in the lobby's model_names fails, moves no funds and creates no Bet
\* record, with InvalidPlayerName when the bettor has no Bet record on the
\* lobby and can pay its rent, and with the error of the account
\* initialisation otherwise; every Bet record's player_name is one of its
\* lobby's model_names.
C9_UnknownPlayerNameFails ==
    /\ \A g \in GameIds, k \in Keys :
          bet[<<g, k>>].initialized =>
              bet[<<g, k>>].player_name \in Members(lobby[bet[<<g, k>>].lobby].model_names)
    /\ \A bettor \in Keys, g \in GameIds, n \in PlayerNames, a \in Amounts :
          LET o == PlaceBetOutcome(bettor, g, n, a) IN
          ( /\ lobby[g].initialized
            /\ lobby[g].status \in {"Waiting", "Running"}
            /\ n \notin Members(lobby[g].model_names) )
          => /\ o.L = Ledger
             /\ o.result =
                   IF bet[<<g, bettor>>].initialized THEN "AccountAlreadyInUse"
                   ELSE IF lamports[bettor] < BetRent THEN "InsufficientFunds"
                   ELSE "InvalidPlayerName"

C9_Witness ==
    \E g \in GameIds :
        /\ last.op = "place_bet" /\ last.result = "InvalidPlayerName"
        /\ lobby[g].initialized /\ lobby[g].status = "Running"
        /\ Ledger = pre

\* C10: on an existing lobby, update_lobby_status by a signer other than
\* the owner fails with Unauthorized and changes nothing; by the owner it
\* succeeds and sets the status to the requested value, whatever the
\* current status, and changes nothing else.
C10_OnlyOwnerUpdatesStatus ==
    \A signer \in Keys, g \in GameIds, st \in LobbyStatus :
        LET o == UpdateLobbyStatusOutcome(signer, g, st) IN
        lobby[g].initialized =>
            IF signer = lobby[g].owner
            THEN /\ o.result = "Ok"
                 /\ o.L = [Ledger EXCEPT !.lobby[g].status = st]
            ELSE /\ o.result = "Unauthorized"
                 /\ o.L = Ledger

C10_Witness ==
    \E g \in GameIds :
        /\ last.op = "update_lobby_status" /\ last.result = "Ok"
        /\ pre.lobby[g].status = "Finished" /\ lobby[g].status = "Waiting"
        /\ \E k \in Keys : bet[<<g, k>>].status = "Paid"
\* Every distribute_single_winning call: any signer, lobby, bet address,
\* escrow address and bettor.
AllAccounts ==
    {Accounts(signer, g, ba, e, bettor) :
        signer \in Keys, g \in GameIds, ba \in GameIds \X Keys, e \in GameIds,
        bettor \in Keys}

\* The call passes the account constraints of DistributeSingleWinning.
DistributeReachesHandler(ctx) ==
    /\ lobby[ctx.lobby].initialized
    /\ bet[ctx.bet].initialized
    /\ ctx.bet = <<ctx.lobby, ctx.bettor>>
    /\ ctx.escrow = ctx.lobby

\* The first of the six preconditions that fails for the call, "none" when
\* all six hold.
FirstFailure(ctx, w) ==
    IF ctx.owner # lobby[ctx.lobby].owner THEN "Unauthorized"
    ELSE IF lobby[ctx.lobby].status # "Finished" THEN "LobbyNotFinished"
    ELSE IF bet[ctx.bet].lobby # ctx.lobby THEN "InvalidBetAccount"
    ELSE IF bet[ctx.bet].bettor # ctx.bettor THEN "InvalidBettor"
    ELSE IF bet[ctx.bet].player_name # w THEN "BetOnWrongPlayer"
    ELSE IF bet[ctx.bet].status # "Active" THEN "BetAlreadyProcessed"
    ELSE "none"

C12_RecordStep ==
    \A p \in GameIds \X Keys :
        bet[p].initialized =>
            bet'[p] = [bet[p] EXCEPT !.status = bet'[p].status]

C12_OneBetPerLobbyAndBettor ==
    /\ [](\A g \in GameIds, bettor \in Keys :
            bet[<<g, bettor>>].initialized =>
                /\ bet[<<g, bettor>>].lobby = g
                /\ bet[<<g, bettor>>].bettor = bettor
                /\ \A n \in PlayerNames, a \in Amounts :
                      LET o == PlaceBetOutcome(bettor, g, n, a) IN
                      o.result # "Ok" /\ o.L = Ledger)
    /\ [][C12_RecordStep]_vars

C12_Witness ==
    /\ last.op = "place_bet" /\ last.result = "AccountAlreadyInUse"
    /\ \E p \in GameIds \X Keys : bet[p].initialized
    /\ \A p \in GameIds \X Keys : bet[p].initialized => bet[p].status = "Paid"
    /\ \E g \in GameIds : lobby[g].status = "Running"
\* C13: total_bets stays within its unsigned range and never wraps: no
\* place_bet whose amount would take total_bets past the largest value
\* succeeds; when such a call has passed the checks and its transfer has
\* been issued, it fails with Overflow, and the balances, total_bets and the
\* Bet records are as before the call.
C13_NoWrapAround ==
    /\ \A g \in GameIds : lobby[g].total_bets \in 0..U64Max
    /\ \A bettor \in Keys, g \in GameIds, n \in PlayerNames, a \in Amounts :
          LET o == PlaceBetOutcome(bettor, g, n, a) IN
          lobby[g].total_bets + a > U64Max =>
              /\ o.result # "Ok"
              /\ o.L = Ledger
              /\ ( /\ PlaceBetReachesHandler(bettor, g)
                   /\ lobby[g].status \in {"Waiting", "Running"}
                   /\ n \in Members(lobby[g].model_names)
                   /\ a > 0
                   /\ lamports[bettor] >= BetRent + a )
                 => o.result = "Overflow"

C13_Witness ==
    \E g \in GameIds :
        /\ last.op = "place_bet" /\ last.result = "Overflow"
        /\ lobby[g].total_bets > 0
        /\ Ledger = pre
        /\ escrow[g] = RentExemptMinimum + lobby[g].total_bets
\* C14: Finished is a terminal lobby status: once a lobby's status is
\* Finished, no call changes it to Waiting or Running.
C14_FinishedIsTerminal ==
    [][\A g \in GameIds :
          (lobby[g].initialized /\ lobby[g].status = "Finished") =>
              lobby'[g].status = "Finished"]_vars

\* C15: a lobby's total_bets never decreases; it changes only in a successful
\* place_bet on that lobby, and that call adds exactly the amount of the bet
\* it records.  No other call changes it.
C15_Step ==
    \A g \in GameIds :
        lobby[g].initialized =>
            /\ lobby'[g].total_bets >= lobby[g].total_bets
            /\ lobby'[g].total_bets # lobby[g].total_bets =>
                  /\ last'.op = "place_bet" /\ last'.result = "Ok"
                  /\ \E k \in Keys :
                        /\ ~bet[<<g, k>>].initialized
                        /\ bet'[<<g, k>>].initialized
                        /\ bet'[<<g, k>>].amount =
                              lobby'[g].total_bets - lobby[g].total_bets
            /\ \A k \in Keys :
                  (~bet[<<g, k>>].initialized /\ bet'[<<g, k>>].initialized) =>
                      lobby'[g].total_bets =
                          lobby[g].total_bets + bet'[<<g, k>>].amount

C15_TotalBetsOnlyGrowsByBets == [][C15_Step]_vars

C15_Witness ==
    \E g \in GameIds, k \in Keys :
        /\ last.op = "place_bet" /\ last.result = "Ok"
        /\ ~pre.bet[<<g, k>>].initialized /\ bet[<<g, k>>].initialized
        /\ pre.lobby[g].total_bets > 0
        /\ lobby[g].total_bets = pre.lobby[g].total_bets + bet[<<g, k>>].amount
        /\ \E k2 \in Keys : bet[<<g, k2>>].status = "Paid"

\* C16 as stated: create_lobby on a game_id that has no lobby creates one
\* with status Waiting, total_bets 0 and owner equal to the caller;
\* create_lobby on a game_id that already has a lobby fails with
\* DuplicateLobby and leaves the existing lobby and its escrow unchanged.
C16_Original ==
    \A owner \in Keys, g \in GameIds, names \in ModelNameLists :
        LET o == CreateLobbyOutcome(owner, g, names) IN
        /\ ~lobby[g].initialized =>
              /\ o.result = "Ok"
              /\ o.L.lobby[g].initialized
              /\ o.L.lobby[g].status = "Waiting"
              /\ o.L.lobby[g].total_bets = 0
              /\ o.L.lobby[g].owner = owner
        /\ lobby[g].initialized =>
              /\ o.result = "DuplicateLobby"
              /\ o.L.lobby[g] = lobby[g]
              /\ o.L.escrow[g] = escrow[g]

\* C16: create_lobby on a game_id that has no lobby, called by an owner who
\* can pay the rent of the Lobby account and the rent-exempt minimum of the
\* escrow, creates the lobby with status Waiting, total_bets 0, the given
\* names and owner equal to the caller, and funds the escrow; an owner who
\* cannot pay gets InsufficientFunds and nothing is created.  create_lobby on
\* a game_id that already has a lobby fails with the runtime's
\* account-already-in-use error (the program has no DuplicateLobby error) and
\* leaves the whole ledger, the existing lobby and its escrow included,
\* unchanged.
C16_CreateLobbyOnceOnly ==
    \A owner \in Keys, g \in GameIds, names \in ModelNameLists :
        LET o == CreateLobbyOutcome(owner, g, names) IN
        /\ (~lobby[g].initialized /\ lamports[owner] >= LobbyRent + RentExemptMinimum) =>
              /\ o.result = "Ok"
              /\ o.L.lobby[g] = [initialized |-> TRUE, owner |-> owner,
                                 game_id |-> g, model_names |-> names,
                                 status |-> "Waiting", total_bets |-> 0]
              /\ o.L.escrow[g] = escrow[g] + RentExemptMinimum
              /\ o.L.lamports[owner] = lamports[owner] - LobbyRent - RentExemptMinimum
        /\ (~lobby[g].initialized /\ lamports[owner] < LobbyRent + RentExemptMinimum) =>
              o.result = "InsufficientFunds" /\ o.L = Ledger
        /\ lobby[g].initialized =>
              o.result = "AccountAlreadyInUse" /\ o.L = Ledger

C16_Witness ==
    \E g \in GameIds :
        /\ last.op = "create_lobby" /\ last.result = "AccountAlreadyInUse"
        /\ lobby[g].initialized /\ lobby[g].status # "Waiting"
        /\ lobby[g].total_bets > 0
        /\ Ledger = pre

\* A call of place_bet, update_lobby_status or distribute_single_winning (on
\* the bet and escrow accounts of the lobby) as a record: k is the signer,
\* b the bettor a payout goes to.
PlaceBetOps ==
    [op : {"place_bet"}, k : {"k1", "k2"}, n : {"bob", "carol"}, a : Amounts,
     st : {"Waiting"}, b : {NoKey}]

UpdateLobbyStatusOps ==
    [op : {"update_lobby_status"}, k : {"k1", "k3"}, n : {NoName}, a : {0},
     st : LobbyStatus, b : {NoKey}]

DistributeOps ==
    [op : {Distribute}, k : {"k1", "k3"}, n : {"bob"}, a : {0},
     st : {"Waiting"}, b : {"k1", "k2"}]

LobbyOps == PlaceBetOps \cup UpdateLobbyStatusOps \cup DistributeOps

\* The ledger after the call c on lobby g, made as one transaction on L.
LobbyOp(L, g, c) ==
    Commit(L,
           IF c.op = "place_bet" THEN place_bet(L, c.k, g, c.n, c.a)
           ELSE IF c.op = "update_lobby_status"
                THEN update_lobby_status(L, c.k, g, c.st)
           ELSE distribute_single_winning(
                    L, Accounts(c.k, g, <<g, c.b>>, g, c.b), c.n))

\* The wallet whose lamports the call moves, if any.
Wallet(c) ==
    IF c.op = "place_bet" THEN c.k ELSE IF c.op = Distribute THEN c.b ELSE NoKey

SameWallet(c1, c2) == Wallet(c1) # NoKey /\ Wallet(c1) = Wallet(c2)

\* The call leaves the record, the bets and the escrow of lobby h as they are.
LeavesLobby(L, h) ==
    /\ L.lobby[h] = lobby[h]
    /\ L.escrow[h] = escrow[h]
    /\ \A k \in Keys : L.bet[<<h, k>>] = bet[<<h, k>>]

\* Calls on a lobby leave every other lobby as it is; distribute_single_winning
\* is called with any bet and escrow address.
OtherLobbiesUntouched ==
    \A g \in GameIds : \A h \in GameIds \ {g} :
        /\ \A k \in Keys, n \in PlayerNames, a \in Amounts :
              LeavesLobby(PlaceBetOutcome(k, g, n, a).L, h)
        /\ \A k \in Keys, st \in LobbyStatus :
              LeavesLobby(UpdateLobbyStatusOutcome(k, g, st).L, h)
        /\ \A k \in Keys, ba \in GameIds \X Keys, e \in GameIds, b \in Keys,
              w \in PlayerNames :
              LeavesLobby(
                  DistributeSingleWinningOutcomeAt(Accounts(k, g, ba, e, b), w).L, h)

Commute(c1, c2) ==
    LobbyOp(LobbyOp(Ledger, "g1", c1), "g2", c2) =
        LobbyOp(LobbyOp(Ledger, "g2", c2), "g1", c1)

\* C17 as stated: calls on a lobby leave every other lobby's record, bets and
\* escrow unchanged, and two calls on different lobbies reach the same state
\* in either order.
C17_Original ==
    /\ OtherLobbiesUntouched
    /\ \A c1 \in LobbyOps, c2 \in LobbyOps : Commute(c1, c2)

\* C17: a place_bet, update_lobby_status or distribute_single_winning on
\* lobby A leaves lobby B's record, every Bet record of lobby B and lobby B's
\* escrow unchanged, so a payout for a bet of lobby A is never drawn from
\* lobby B's escrow; two calls on different lobbies that do not move the
\* lamports of the same wallet reach the same state in either order.
C17_LobbiesAreIndependent ==
    /\ OtherLobbiesUntouched
    /\ \A c1 \in LobbyOps, c2 \in LobbyOps :
          ~SameWallet(c1, c2) => Commute(c1, c2)

C17_Witness ==
    /\ last.op = Distribute /\ last.result = "Ok"
    /\ escrow["g1"] < pre.escrow["g1"]
    /\ bet[<<"g1", "k1">>].status = "Paid"
    /\ lobby["g2"].status = "Finished"
    /\ bet[<<"g2", "k1">>].status = "Active" /\ bet[<<"g2", "k1">>].amount > 0
    /\ LeavesLobby(pre, "g2")

\* Sum of amount over the Bet records of lobby g whose status is st.
BetSumWithStatus(B, g, st) ==
    SumOver([p \in GameIds \X Keys |-> B[p].amount],
            {p \in BetsOf(B, g) : B[p].status = st})

\* C18: in every reachable state the escrow of each lobby holds the
\* rent-exempt minimum deposited by create_lobby plus the sum of amount over
\* the lobby's Active bets; hence the balance never drops below the
\* rent-exempt minimum, the amounts paid out never exceed total_bets, and the
\* escrow holds enough to pay any Active bet.
C18_EscrowCoversActiveBets ==
    \A g \in GameIds :
        IF lobby[g].initialized
        THEN /\ escrow[g] = RentExemptMinimum + BetSumWithStatus(bet, g, "Active")
             /\ escrow[g] >= RentExemptMinimum
             /\ BetSumWithStatus(bet, g, "Paid") <= lobby[g].total_bets
             /\ \A p \in BetsOf(bet, g) :
                   bet[p].status = "Active" =>
                       escrow[g] - RentExemptMinimum >= bet[p].amount
        ELSE escrow[g] = 0

C18_Witness ==
    \E g \in GameIds, k1 \in Keys, k2 \in Keys :
        /\ last.op = Distribute /\ last.result = "Ok"
        /\ pre.bet[<<g, k1>>].status = "Active" /\ bet[<<g, k1>>].status = "Paid"
        /\ bet[<<g, k2>>].initialized /\ bet[<<g, k2>>].status = "Active"
        /\ pre.escrow[g] = RentExemptMinimum + bet[<<g, k1>>].amount + bet[<<g, k2>>].amount
        /\ escrow[g] = RentExemptMinimum + bet[<<g, k2>>].amount

\* The six preconditions of distribute_single_winning (lib.rs 120-131).
SixPreconditions(ctx, w) ==
    /\ lobby[ctx.lobby].owner = ctx.owner
    /\ lobby[ctx.lobby].status = "Finished"
    /\ bet[ctx.bet].lobby = ctx.lobby
    /\ bet[ctx.bet].bettor = ctx.bettor
    /\ bet[ctx.bet].player_name = w
    /\ bet[ctx.bet].status = "Active"

\* C19: in every reachable state a distribute_single_winning call on the
\* accounts of a lobby and a bet succeeds exactly when its six preconditions
\* hold: the owner's call on a Finished lobby for an Active bet of that
\* lobby, with the bet's own bettor and winner_name equal to the bet's
\* player_name, commits, moves the bet's amount from the escrow to the bettor
\* and sets the bet to Paid; no call fails for lack of funds in the escrow.
C19_SucceedsExactlyOnPreconditions ==
    \A ctx \in AllAccounts, w \in PlayerNames :
        LET o == DistributeSingleWinningOutcomeAt(ctx, w)
            b == bet[ctx.bet]
        IN
        /\ o.result = "Ok" <=>
              (DistributeReachesHandler(ctx) /\ SixPreconditions(ctx, w))
        /\ o.result # "InsufficientFunds"
        /\ o.result = "Ok" =>
              /\ o.L.escrow = [escrow EXCEPT ![ctx.lobby] = @ - b.amount]
              /\ o.L.lamports = [lamports EXCEPT ![b.bettor] = @ + b.amount]
              /\ o.L.bet = [bet EXCEPT ![ctx.bet].status = "Paid"]
              /\ o.L.lobby = lobby

C19_Witness ==
    \E p \in GameIds \X Keys :
        /\ last.op = Distribute /\ last.result = "Ok"
        /\ pre.lobby[p[1]].status = "Finished"
        /\ pre.bet[p].status = "Active" /\ bet[p].status = "Paid"
        /\ pre.bet[p].amount = MaxAmount
        /\ lamports[p[2]] = pre.lamports[p[2]] + MaxAmount
        /\ escrow[p[1]] = pre.escrow[p[1]] - MaxAmount
        /\ escrow[p[1]] = RentExemptMinimum

\* C20 as stated: in every reachable state all Paid bets of one lobby carry
\* the same player_name.
C20_Original ==
    \A g \in GameIds :
        \A p \in BetsOf(bet, g), q \in BetsOf(bet, g) :
            (bet[p].status = "Paid" /\ bet[q].status = "Paid") =>
                bet[p].player_name = bet[q].player_name

\* C20: settlement is per bet: a successful distribute_single_winning pays
\* the one bet it is called on, whose player_name equals the winner_name of
\* that call, and changes no other bet.  The winner is an argument of each
\* call and is not recorded in the lobby, so bets of one lobby on different
\* outcomes can all be paid.
C20_EachCallPaysItsNamedWinner ==
    \A ctx \in AllAccounts, w \in PlayerNames :
        LET o == DistributeSingleWinningOutcomeAt(ctx, w) IN
        o.result = "Ok" =>
            /\ bet[ctx.bet].player_name = w
            /\ o.L.bet[ctx.bet].player_name = w
            /\ o.L.bet[ctx.bet].status = "Paid"
            /\ \A q \in (GameIds \X Keys) \ {ctx.bet} : o.L.bet[q] = bet[q]

C20_Witness ==
    \E g \in GameIds, k1 \in Keys, k2 \in Keys :
        /\ last.op = Distribute /\ last.result = "Ok"
        /\ pre.bet[<<g, k1>>].status = "Active" /\ bet[<<g, k1>>].status = "Paid"
        /\ bet[<<g, k2>>].status = "Paid"
        /\ bet[<<g, k1>>].player_name = "alice"
        /\ bet[<<g, k2>>].player_name = "bob"
====
